---- MODULE Spec2Model ----
(***************************************************************************)
(* A model of the address-book assistant in src/main.py: the field         *)
(* validators (Phone, Birthday), Record, AddressBook with its              *)
(* upcoming-birthday computation, the command handlers wrapped by           *)
(* input_error, and the main loop with load_data / save_data.               *)
(*                                                                         *)
(* Strings are sequences of one-character strings.  The character written  *)
(* "SUP2" stands for U+00B2 (SUPERSCRIPT TWO), a character for which       *)
(* Python's str.isdigit() is True although it is not a decimal digit.      *)
(* Dates are triples <<year, month, day>>; None is the empty tuple.        *)
(***************************************************************************)
EXTENDS Integers, Sequences, FiniteSets, TLC

VARIABLES book, out, file, pc, saves, ncmd, log

vars == <<book, out, file, pc, saves, ncmd, log>>

(***************************************************************************)
(* Bounds of the model.                                                    *)
(***************************************************************************)
MaxPhones == 3
MaxAdds == 4
MaxCommands == 3
TodaySpan == 10

(***************************************************************************)
(* Characters and strings.                                                 *)
(***************************************************************************)
AsciiDigits == <<"0", "1", "2", "3", "4", "5", "6", "7", "8", "9">>

IsAsciiDigit(c) == \E i \in 1..10 : AsciiDigits[i] = c

\* the value of an ASCII digit character
DigitVal(c) == (CHOOSE i \in 1..10 : AsciiDigits[i] = c) - 1

\* str.isdigit() on one character: decimal digits and the "other digits"
\* such as the superscript digits
IsDigitChar(c) == IsAsciiDigit(c) \/ c = "SUP2"

\* str.isdigit(): a non-empty string all of whose characters are digits
isdigit(s) == Len(s) > 0 /\ \A i \in 1..Len(s) : IsDigitChar(s[i])

None == <<>>

NoExc == [type |-> "none", msg |-> ""]

ValueError(m) == [type |-> "ValueError", msg |-> m]

AttributeError == [type |-> "AttributeError", msg |-> "'NoneType' object has no attribute"]

(***************************************************************************)
(* Phone                                                                   *)
(***************************************************************************)
Phone_validate(value) == Len(value) = 10 /\ isdigit(value)

(***************************************************************************)
(* The calendar (datetime.date).                                           *)
(***************************************************************************)
IsLeap(y) == y % 4 = 0 /\ (y % 100 # 0 \/ y % 400 = 0)

DaysInMonth(y, m) ==
    IF m = 2 THEN (IF IsLeap(y) THEN 29 ELSE 28)
    ELSE IF m \in {4, 6, 9, 11} THEN 30 ELSE 31

IsValidDate(y, m, d) ==
    /\ y \in 1..9999
    /\ m \in 1..12
    /\ d \in 1..DaysInMonth(y, m)

RECURSIVE DaysBeforeMonth(_, _)
DaysBeforeMonth(y, m) ==
    IF m = 1 THEN 0 ELSE DaysBeforeMonth(y, m - 1) + DaysInMonth(y, m - 1)

DaysBeforeYear(y) ==
    LET p == y - 1 IN p * 365 + (p \div 4) - (p \div 100) + (p \div 400)

\* date.toordinal(): 1 for 0001-01-01
Ordinal(dt) == DaysBeforeYear(dt[1]) + DaysBeforeMonth(dt[1], dt[2]) + dt[3]

\* (a - b).days
DaysBetween(a, b) == Ordinal(a) - Ordinal(b)

\* a < b on dates
DateLess(a, b) == Ordinal(a) < Ordinal(b)

\* a weekday numbered from Sunday (0) to Saturday (6), as isoweekday() % 7
weekday_sunday0(dt) == Ordinal(dt) % 7

\* date.weekday(): Monday is 0, Sunday is 6
weekday(dt) == (Ordinal(dt) + 6) % 7

NextDay(dt) ==
    IF dt[3] < DaysInMonth(dt[1], dt[2]) THEN <<dt[1], dt[2], dt[3] + 1>>
    ELSE IF dt[2] < 12 THEN <<dt[1], dt[2] + 1, 1>>
    ELSE <<dt[1] + 1, 1, 1>>

\* dt + timedelta(days=n), n >= 0
RECURSIVE AddDays(_, _)
AddDays(dt, n) == IF n = 0 THEN dt ELSE AddDays(NextDay(dt), n - 1)

\* date.replace(year=y): raises ValueError when the result is no date
date_replace(dt, y) ==
    IF IsValidDate(y, dt[2], dt[3])
    THEN [exc |-> NoExc, val |-> <<y, dt[2], dt[3]>>]
    ELSE [exc |-> ValueError("day is out of range for month"), val |-> None]

(***************************************************************************)
(* Birthday: strptime(value, "%d.%m.%Y") and strftime("%d.%m.%Y").         *)
(***************************************************************************)
\* the regular expression of %d: 3[0-1]|[1-2]\d|0[1-9]|[1-9]| [1-9]
MatchesDay(f) ==
    \/ /\ Len(f) = 2
       /\ \/ f[1] = "3" /\ f[2] \in {"0", "1"}
          \/ f[1] \in {"1", "2"} /\ IsAsciiDigit(f[2])
          \/ f[1] \in {"0", " "} /\ IsAsciiDigit(f[2]) /\ f[2] # "0"
    \/ Len(f) = 1 /\ IsAsciiDigit(f[1]) /\ f[1] # "0"

\* the regular expression of %m: 1[0-2]|0[1-9]|[1-9]
MatchesMonth(f) ==
    \/ /\ Len(f) = 2
       /\ \/ f[1] = "1" /\ f[2] \in {"0", "1", "2"}
          \/ f[1] = "0" /\ IsAsciiDigit(f[2]) /\ f[2] # "0"
    \/ Len(f) = 1 /\ IsAsciiDigit(f[1]) /\ f[1] # "0"

\* the regular expression of %Y: \d\d\d\d
MatchesYear(f) == Len(f) = 4 /\ \A i \in 1..4 : IsAsciiDigit(f[i])

RECURSIVE FieldVal(_)
FieldVal(f) ==
    IF Len(f) = 0 THEN 0
    ELSE IF f[Len(f)] = " " THEN 0
    ELSE 10 * FieldVal(SubSeq(f, 1, Len(f) - 1)) + DigitVal(f[Len(f)])

\* the ways "%d.%m.%Y" matches the whole of s: the places of the two dots
\* (%d and %m match one or two characters each)
StrptimeSplits(s) ==
    {ij \in (2..3) \X (4..6) :
        /\ ij[2] <= Len(s)
        /\ ij[1] < ij[2]
        /\ s[ij[1]] = "."
        /\ s[ij[2]] = "."
        /\ MatchesDay(SubSeq(s, 1, ij[1] - 1))
        /\ MatchesMonth(SubSeq(s, ij[1] + 1, ij[2] - 1))
        /\ MatchesYear(SubSeq(s, ij[2] + 1, Len(s)))}

\* datetime.strptime(s, "%d.%m.%Y"), the date part
strptime(s) ==
    IF StrptimeSplits(s) = {} THEN [exc |-> ValueError("does not match format"), val |-> None]
    ELSE LET ij == CHOOSE x \in StrptimeSplits(s) : TRUE
             d == FieldVal(SubSeq(s, 1, ij[1] - 1))
             m == FieldVal(SubSeq(s, ij[1] + 1, ij[2] - 1))
             y == FieldVal(SubSeq(s, ij[2] + 1, Len(s)))
         IN IF IsValidDate(y, m, d) THEN [exc |-> NoExc, val |-> <<y, m, d>>]
            ELSE [exc |-> ValueError("day is out of range for month"), val |-> None]

\* Birthday(value): the stored date, or ValueError
Birthday(value) ==
    LET parsed == strptime(value)
    IN IF parsed.exc = NoExc THEN parsed
       ELSE [exc |-> ValueError("Invalid date format. Use DD.MM.YYYY"), val |-> None]

Pad2(n) == <<AsciiDigits[(n \div 10) + 1], AsciiDigits[(n % 10) + 1]>>

\* strftime("%d.%m.%Y") of a date whose year has four digits
strftime(dt) ==
    Pad2(dt[3]) \o <<".">> \o Pad2(dt[2]) \o <<".">>
        \o Pad2(dt[1] \div 100) \o Pad2(dt[1] % 100)

(***************************************************************************)
(* Record                                                                  *)
(***************************************************************************)
Record(name) == [name |-> name, phones |-> <<>>, birthday |-> None]

add_phone(rec, phone) ==
    IF ~Phone_validate(phone)
    THEN [exc |-> ValueError("Phone number must be 10 digits."), rec |-> rec]
    ELSE [exc |-> NoExc, rec |-> [rec EXCEPT !.phones = Append(@, phone)]]

remove_phone(rec, phone) ==
    [exc |-> NoExc,
     rec |-> [rec EXCEPT !.phones = SelectSeq(@, LAMBDA p : p # phone)]]

\* the index of the first phone equal to phone, 0 when there is none
find_phone(rec, phone) ==
    IF \E i \in 1..Len(rec.phones) : rec.phones[i] = phone
    THEN CHOOSE i \in 1..Len(rec.phones) :
            /\ rec.phones[i] = phone
            /\ \A j \in 1..(i - 1) : rec.phones[j] # phone
    ELSE 0

\* edit_phone without the return of line 58: every entry equal to old_phone
\* is replaced
edit_phone_all(rec, old_phone, new_phone) ==
    IF find_phone(rec, old_phone) = 0
    THEN [exc |-> ValueError("Phone {old_phone} not found."), rec |-> rec]
    ELSE IF ~Phone_validate(new_phone)
    THEN [exc |-> ValueError("Phone number must be 10 digits."), rec |-> rec]
    ELSE [exc |-> NoExc,
          rec |-> [rec EXCEPT !.phones =
                      [i \in 1..Len(@) |-> IF @[i] = old_phone THEN new_phone ELSE @[i]]]]

edit_phone(rec, old_phone, new_phone) ==
    IF find_phone(rec, old_phone) = 0
    THEN [exc |-> ValueError("Phone {old_phone} not found."), rec |-> rec]
    ELSE IF ~Phone_validate(new_phone)
    THEN [exc |-> ValueError("Phone number must be 10 digits."), rec |-> rec]
    ELSE [exc |-> NoExc,
          rec |-> [rec EXCEPT !.phones[find_phone(rec, old_phone)] = new_phone]]

\* add_birthday assigning before the parse is known to succeed: a failed parse
\* clears the birthday
add_birthday_clearing(rec, birthday) ==
    LET b == Birthday(birthday)
    IN [exc |-> b.exc, rec |-> [rec EXCEPT !.birthday = b.val]]

add_birthday(rec, birthday) ==
    LET b == Birthday(birthday)
    IN IF b.exc # NoExc THEN [exc |-> b.exc, rec |-> rec]
       ELSE [exc |-> NoExc, rec |-> [rec EXCEPT !.birthday = b.val]]

(***************************************************************************)
(* AddressBook: a dict, which keeps its keys in insertion order, as the    *)
(* sequence of its records.                                                *)
(***************************************************************************)
\* the index of the record stored under name, 0 when there is none
find(bk, name) ==
    IF \E i \in 1..Len(bk) : bk[i].name = name
    THEN CHOOSE i \in 1..Len(bk) : bk[i].name = name
    ELSE 0

add_record(bk, record) ==
    IF find(bk, record.name) = 0 THEN Append(bk, record)
    ELSE [bk EXCEPT ![find(bk, record.name)] = record]

delete(bk, name) == SelectSeq(bk, LAMBDA r : r.name # name)

InWindow(days) == 0 <= days /\ days <= 7

\* the shift with 6 in place of 7
days_to_monday_short(bty) == 6 - weekday(bty)

days_to_monday(bty) == 7 - weekday(bty)

\* lines 103-111: the entry of a birthday whose occurrence bty is in the window
congratulation(name, bty) ==
    [name |-> name,
     congratulation_date |->
        strftime(IF weekday(bty) >= 5 THEN AddDays(bty, days_to_monday(bty)) ELSE bty)]

\* the loop of get_upcoming_birthdays from record i on, acc being upcoming_birthdays
RECURSIVE upcoming_loop(_, _, _, _)
upcoming_loop(bk, today, i, acc) ==
    IF i > Len(bk) THEN [exc |-> NoExc, val |-> acc]
    ELSE IF bk[i].birthday = None THEN upcoming_loop(bk, today, i + 1, acc)
    ELSE LET this_year == date_replace(bk[i].birthday, today[1])
         IN IF this_year.exc # NoExc THEN [exc |-> this_year.exc, val |-> None]
            ELSE LET moved == IF DateLess(this_year.val, today)
                              THEN date_replace(bk[i].birthday, today[1] + 1)
                              ELSE this_year
                 IN IF moved.exc # NoExc THEN [exc |-> moved.exc, val |-> None]
                    ELSE IF InWindow(DaysBetween(moved.val, today))
                    THEN upcoming_loop(bk, today, i + 1,
                             Append(acc, congratulation(bk[i].name, moved.val)))
                    ELSE upcoming_loop(bk, today, i + 1, acc)

get_upcoming_birthdays(bk, today) == upcoming_loop(bk, today, 1, <<>>)

(***************************************************************************)
(* The inputs the operations are called with.                              *)
(***************************************************************************)
Names == {<<"a", "l">>, <<"b", "o", "b">>}

Phone1 == <<"1", "2", "3", "4", "5", "6", "7", "8", "9", "0">>

Phone2 == <<"0", "9", "8", "7", "6", "5", "4", "3", "2", "1">>

\* ten characters, isdigit() of each is True, the last is no decimal digit
PhoneSup == <<"1", "2", "3", "4", "5", "6", "7", "8", "9", "SUP2">>

PhoneShort == <<"1", "2", "3">>

PhoneLong == <<"1", "2", "3", "4", "5", "6", "7", "8", "9", "0", "1">>

PhoneLetter == <<"1", "2", "3", "4", "5", "a", "b", "c", "d", "e">>

PhoneInputs == {Phone1, Phone2, PhoneSup, PhoneShort, PhoneLong, PhoneLetter}

BirthDates ==
    {<<1990, 6, 15>>, <<2001, 6, 16>>, <<1985, 1, 2>>, <<1990, 12, 31>>,
     <<2000, 2, 29>>, <<1990, 3, 1>>}

\* 29 February of a year that is no leap year
BirthdayFeb29NoLeap == <<"2", "9", ".", "0", "2", ".", "2", "0", "0", "1">>

BirthdayDashes == <<"1", "5", "-", "0", "6", "-", "1", "9", "9", "0">>

\* accepted by strptime although not zero-padded: 1 February 2000
BirthdayUnpadded == <<"1", ".", "2", ".", "2", "0", "0", "0">>

BirthdayInputs == {strftime(d) : d \in BirthDates} \cup {BirthdayDashes}

BirthdayTwoDigitYear == <<"1", "5", ".", "0", "6", ".", "9", "0">>

RecordBirthdayInputs ==
    {strftime(<<1990, 6, 15>>), BirthdayUnpadded, BirthdayFeb29NoLeap, BirthdayTwoDigitYear}

DaysFrom(start) == {AddDays(start, k) : k \in 0..(TodaySpan - 1)}

\* the dates datetime.today() returns in the model
Todays ==
    DaysFrom(<<2024, 6, 7>>) \cup DaysFrom(<<2024, 12, 24>>)
        \cup DaysFrom(<<2023, 2, 20>>) \cup DaysFrom(<<2024, 2, 21>>)

(***************************************************************************)
(* The state.  book is the AddressBook in memory; out is the last call     *)
(* (or command) and what it returned or raised; file is addressbook.pkl    *)
(* (the empty tuple when absent, else the one-element tuple of the pickled *)
(* book); pc is the place of main(); saves counts the calls of save_data;  *)
(* ncmd counts the commands read; log is the transcript of the commands.   *)
(***************************************************************************)
NoFile == <<>>

NoCall == [op |-> "none", args |-> <<>>, exc |-> NoExc, ret |-> <<>>]

Call(op, args, exc, ret) == [op |-> op, args |-> args, exc |-> exc, ret |-> ret]

\* a program that uses the classes directly, holding one fresh Record
InitRecord ==
    /\ book \in {<<Record(n)>> : n \in Names}
    /\ out = NoCall
    /\ file = NoFile
    /\ pc = "api"
    /\ saves = 0
    /\ ncmd = 0
    /\ log = <<>>

\* a program that uses the classes directly, holding an empty AddressBook
InitBook ==
    /\ book = <<>>
    /\ out = NoCall
    /\ file = NoFile
    /\ pc = "api"
    /\ saves = 0
    /\ ncmd = 0
    /\ log = <<>>

CallAddPhone(i, phone) ==
    LET r == add_phone(book[i], phone)
    IN /\ Len(book[i].phones) < MaxPhones \/ r.exc # NoExc
       /\ book' = [book EXCEPT ![i] = r.rec]
       /\ out' = Call("add_phone", <<phone>>, r.exc, None)
       /\ UNCHANGED <<file, pc, saves, ncmd, log>>

CallRemovePhone(i, phone) ==
    /\ book' = [book EXCEPT ![i] = remove_phone(book[i], phone).rec]
    /\ out' = Call("remove_phone", <<phone>>, NoExc, None)
    /\ UNCHANGED <<file, pc, saves, ncmd, log>>

CallEditPhone(i, old_phone, new_phone) ==
    LET r == edit_phone(book[i], old_phone, new_phone)
    IN /\ book' = [book EXCEPT ![i] = r.rec]
       /\ out' = Call("edit_phone", <<old_phone, new_phone>>, r.exc, None)
       /\ UNCHANGED <<file, pc, saves, ncmd, log>>

CallAddBirthday(i, birthday) ==
    LET r == add_birthday(book[i], birthday)
    IN /\ book' = [book EXCEPT ![i] = r.rec]
       /\ out' = Call("add_birthday", <<book[i].name, birthday>>, r.exc, None)
       /\ UNCHANGED <<file, pc, saves, ncmd, log>>

CallAddRecord(name) ==
    /\ book' = add_record(book, Record(name))
    /\ out' = Call("add_record", <<name>>, NoExc, None)
    /\ UNCHANGED <<file, pc, saves, ncmd, log>>

CallDelete(name) ==
    /\ book' = delete(book, name)
    /\ out' = Call("delete", <<name>>, NoExc, None)
    /\ UNCHANGED <<file, pc, saves, ncmd, log>>

CallGetUpcomingBirthdays(today) ==
    LET r == get_upcoming_birthdays(book, today)
    IN /\ out' = Call("get_upcoming_birthdays", <<today>>, r.exc, r.val)
       /\ UNCHANGED <<book, file, pc, saves, ncmd, log>>

NextRecord ==
    \/ \E p \in PhoneInputs : CallAddPhone(1, p)
    \/ \E p \in PhoneInputs : CallRemovePhone(1, p)
    \/ \E p \in PhoneInputs, q \in PhoneInputs : CallEditPhone(1, p, q)
    \/ \E b \in RecordBirthdayInputs : CallAddBirthday(1, b)

SpecRecord == InitRecord /\ [][NextRecord]_vars

NextBook ==
    \/ \E n \in Names : CallAddRecord(n)
    \/ \E n \in Names : CallDelete(n)
    \/ \E i \in 1..Len(book), b \in BirthdayInputs : CallAddBirthday(i, b)
    \/ \E t \in Todays : CallGetUpcomingBirthdays(t)

SpecBook == InitBook /\ [][NextBook]_vars

(***************************************************************************)
(* The command handlers.  A handler's result is the book after it, the     *)
(* exception it raised (NoExc when it returned) and the string it          *)
(* returned: a reply, with the values it shows in data.                    *)
(***************************************************************************)
Reply(text, data) == [error |-> FALSE, text |-> text, data |-> data]

\* the reply "Error: " followed by text
ErrorReply(text) == [error |-> TRUE, text |-> text, data |-> <<>>]

NoReply == Reply("", <<>>)

Returned(bk, val) == [bk |-> bk, exc |-> NoExc, val |-> val]

Raised(bk, exc) == [bk |-> bk, exc |-> exc, val |-> NoReply]

\* input_error: the decorated handler's book and reply; escaped is the
\* exception it does not catch
input_error(r) ==
    IF r.exc = NoExc THEN [bk |-> r.bk, reply |-> r.val, escaped |-> NoExc]
    ELSE IF r.exc.type = "ValueError"
    THEN [bk |-> r.bk, reply |-> ErrorReply(r.exc.msg), escaped |-> NoExc]
    ELSE IF r.exc.type \in {"KeyError", "AttributeError"}
    THEN [bk |-> r.bk, reply |-> ErrorReply("Contact not found."), escaped |-> NoExc]
    ELSE IF r.exc.type = "IndexError"
    THEN [bk |-> r.bk, reply |-> ErrorReply("Not enough arguments provided."), escaped |-> NoExc]
    ELSE [bk |-> r.bk, reply |-> NoReply, escaped |-> r.exc]

\* add_contact building a fresh Record on every call, which add_record stores
\* over the existing one
add_contact_fresh(args, bk) ==
    IF Len(args) < 2
    THEN Raised(bk, ValueError("Please provide name and phone number. Usage: add [name] [phone]"))
    ELSE LET name == args[1]
             phone == args[2]
             message == IF find(bk, name) = 0 THEN "Contact added." ELSE "Contact updated."
             bk1 == add_record(bk, Record(name))
             r == add_phone(bk1[find(bk1, name)], phone)
         IN IF r.exc # NoExc THEN Raised(bk1, r.exc)
            ELSE Returned([bk1 EXCEPT ![find(bk1, name)] = r.rec], Reply(message, <<>>))

add_contact(args, bk) ==
    IF Len(args) < 2
    THEN Raised(bk, ValueError("Please provide name and phone number. Usage: add [name] [phone]"))
    ELSE LET name == args[1]
             phone == args[2]
             message == IF find(bk, name) = 0 THEN "Contact added." ELSE "Contact updated."
             bk1 == IF find(bk, name) = 0 THEN add_record(bk, Record(name)) ELSE bk
             r == add_phone(bk1[find(bk1, name)], phone)
         IN IF r.exc # NoExc THEN Raised(bk1, r.exc)
            ELSE Returned([bk1 EXCEPT ![find(bk1, name)] = r.rec], Reply(message, <<>>))

change_contact(args, bk) ==
    IF Len(args) < 3
    THEN Raised(bk, ValueError("Please provide name, old phone and new phone. Usage: change [name] [old_phone] [new_phone]"))
    ELSE IF find(bk, args[1]) = 0 THEN Raised(bk, AttributeError)
    ELSE LET i == find(bk, args[1])
             r == edit_phone(bk[i], args[2], args[3])
         IN IF r.exc # NoExc THEN Raised([bk EXCEPT ![i] = r.rec], r.exc)
            ELSE Returned([bk EXCEPT ![i] = r.rec], Reply("Contact updated.", <<>>))

show_phone(args, bk) ==
    IF Len(args) < 1
    THEN Raised(bk, ValueError("Please provide contact name. Usage: phone [name]"))
    ELSE IF find(bk, args[1]) = 0 THEN Raised(bk, AttributeError)
    ELSE IF bk[find(bk, args[1])].phones = <<>>
    THEN Returned(bk, Reply("No phones saved for {name}.", <<>>))
    ELSE Returned(bk, Reply("{phones}", bk[find(bk, args[1])].phones))

\* Record.__str__: the name, the phones, the birthday as DD.MM.YYYY if set
Record_str(rec) ==
    [name |-> rec.name, phones |-> rec.phones,
     birthday |-> IF rec.birthday = None THEN <<>> ELSE strftime(rec.birthday)]

show_all(bk) ==
    IF bk = <<>> THEN Returned(bk, Reply("No contacts saved.", <<>>))
    ELSE Returned(bk, Reply("{records}", [i \in 1..Len(bk) |-> Record_str(bk[i])]))

add_birthday_cmd(args, bk) ==
    IF Len(args) < 2
    THEN Raised(bk, ValueError("Please provide name and birthday. Usage: add-birthday [name] [DD.MM.YYYY]"))
    ELSE IF find(bk, args[1]) = 0 THEN Raised(bk, AttributeError)
    ELSE LET i == find(bk, args[1])
             r == add_birthday(bk[i], args[2])
         IN IF r.exc # NoExc THEN Raised([bk EXCEPT ![i] = r.rec], r.exc)
            ELSE Returned([bk EXCEPT ![i] = r.rec], Reply("Birthday added.", <<>>))

show_birthday(args, bk) ==
    IF Len(args) < 1
    THEN Raised(bk, ValueError("Please provide contact name. Usage: show-birthday [name]"))
    ELSE IF find(bk, args[1]) = 0 THEN Raised(bk, AttributeError)
    ELSE IF bk[find(bk, args[1])].birthday = None
    THEN Returned(bk, Reply("Birthday not set for this contact.", <<>>))
    ELSE Returned(bk, Reply("{birthday}", strftime(bk[find(bk, args[1])].birthday)))

birthdays(bk, today) ==
    LET upcoming == get_upcoming_birthdays(bk, today)
    IN IF upcoming.exc # NoExc THEN Raised(bk, upcoming.exc)
       ELSE IF upcoming.val = <<>>
       THEN Returned(bk, Reply("No upcoming birthdays in the next week.", <<>>))
       ELSE Returned(bk, Reply("Upcoming birthdays:", upcoming.val))

\* the branch of main's loop for a command other than close and exit
Dispatch(command, args, bk, today) ==
    IF command = "hello" THEN [bk |-> bk, reply |-> Reply("How can I help you?", <<>>), escaped |-> NoExc]
    ELSE IF command = "add" THEN input_error(add_contact(args, bk))
    ELSE IF command = "change" THEN input_error(change_contact(args, bk))
    ELSE IF command = "phone" THEN input_error(show_phone(args, bk))
    ELSE IF command = "all" THEN input_error(show_all(bk))
    ELSE IF command = "add-birthday" THEN input_error(add_birthday_cmd(args, bk))
    ELSE IF command = "show-birthday" THEN input_error(show_birthday(args, bk))
    ELSE IF command = "birthdays" THEN input_error(birthdays(bk, today))
    ELSE [bk |-> bk, reply |-> Reply("Invalid command.", <<>>), escaped |-> NoExc]

save_data(bk) == <<bk>>

load_data(f) == IF f = NoFile THEN <<>> ELSE f[1]

\* main with save_data at the end of the try body and of the KeyboardInterrupt
\* handler only: end of input leaves without saving
finally_clause_not_on_eof(way, bk, f, n) ==
    IF way = "EOFError" THEN [file |-> f, saves |-> n]
    ELSE [file |-> save_data(bk), saves |-> n + 1]

\* main's finally clause, reached by `way`: the file and the number of saves
finally_clause(way, bk, f, n) == [file |-> save_data(bk), saves |-> n + 1]

(***************************************************************************)
(* The commands typed in the model.                                        *)
(***************************************************************************)
CmdPhones == {Phone1, Phone2, PhoneShort}

CmdBirthdays == {strftime(<<1990, 6, 15>>), strftime(<<2000, 2, 29>>), BirthdayDashes}

Today0 == <<2024, 6, 10>>

CmdTodays == {Today0, <<2023, 2, 27>>}

Typed(command, args, today) == [command |-> command, args |-> args, today |-> today]

AddArgLists ==
    {<<>>} \cup {<<n>> : n \in Names} \cup {<<n, p>> : n \in Names, p \in CmdPhones}
        \cup {<<n, Phone1, Phone2>> : n \in Names}

ChangeArgLists ==
    {<<n, Phone1>> : n \in Names}
        \cup {<<n, p, q>> : n \in Names, p \in {Phone1, PhoneShort}, q \in CmdPhones}

BirthdayArgLists ==
    {<<n>> : n \in Names} \cup {<<n, b>> : n \in Names, b \in CmdBirthdays}

LookupArgLists == {<<>>} \cup {<<n>> : n \in Names}

\* the lines typed at the prompt, split by parse_input, with the date of the
\* day they are typed on
Inputs ==
    {Typed(c, <<>>, Today0) : c \in {"hello", "all", "unknown"}}
        \cup {Typed("birthdays", <<>>, t) : t \in CmdTodays}
        \cup {Typed("add", a, Today0) : a \in AddArgLists}
        \cup {Typed("change", a, Today0) : a \in ChangeArgLists}
        \cup {Typed("add-birthday", a, Today0) : a \in BirthdayArgLists}
        \cup {Typed(c, a, Today0) : c \in {"phone", "show-birthday"}, a \in LookupArgLists}

\* a file left by an earlier session
SavedBook == <<[name |-> <<"a", "l">>, phones |-> <<Phone1>>, birthday |-> <<1990, 6, 15>>]>>

\* a session made of add commands only, each of which succeeds
InitAdd ==
    /\ book = <<>>
    /\ out = Call("none", <<>>, NoExc, NoReply)
    /\ file = NoFile
    /\ pc = "prompt"
    /\ saves = 0
    /\ ncmd = 0
    /\ log = <<>>

SuccessfulAdd(args) ==
    LET r == Dispatch("add", args, book, Today0)
    IN /\ pc = "prompt"
       /\ Len(log) < MaxAdds
       /\ ~r.reply.error
       /\ book' = r.bk
       /\ out' = Call("add", args, NoExc, r.reply)
       /\ log' = Append(log, [command |-> "add", args |-> args, reply |-> r.reply.text])
       /\ UNCHANGED <<file, pc, saves, ncmd>>

NextAdd == \E args \in AddArgLists : SuccessfulAdd(args)

SpecAdd == InitAdd /\ [][NextAdd]_vars

\* main(), from before load_data to after save_data
InitSession ==
    /\ book = <<>>
    /\ out = Call("none", <<>>, NoExc, NoReply)
    /\ file \in {NoFile, save_data(SavedBook)}
    /\ pc = "start"
    /\ saves = 0
    /\ ncmd = 0
    /\ log = <<>>

Load ==
    /\ pc = "start"
    /\ book' = load_data(file)
    /\ pc' = "prompt"
    /\ out' = Call("load_data", <<>>, NoExc, NoReply)
    /\ UNCHANGED <<file, saves, ncmd, log>>

\* one turn of the loop: a command other than close and exit
Command(in) ==
    LET r == Dispatch(in.command, in.args, book, in.today)
    IN /\ pc = "prompt"
       /\ ncmd < MaxCommands
       /\ book' = r.bk
       /\ out' = Call(in.command, in.args, NoExc, r.reply)
       /\ ncmd' = ncmd + 1
       /\ UNCHANGED <<file, pc, saves, log>>

\* the ways the loop ends without an error escaping a command: the command
\* close or exit, KeyboardInterrupt in input(), EOFError in input()
Leave(way) ==
    LET end == finally_clause(way, book, file, saves)
    IN /\ pc = "prompt"
       /\ file' = end.file
       /\ saves' = end.saves
       /\ pc' = "done"
       /\ out' = Call(way, <<>>, NoExc, NoReply)
       /\ UNCHANGED <<book, ncmd, log>>

\* an exception input_error does not catch (KeyboardInterrupt) raised while a
\* command runs, before its handler changed the book or after it did
Escape(in, after) ==
    LET bk == IF after THEN Dispatch(in.command, in.args, book, in.today).bk ELSE book
        end == finally_clause("escaped", bk, file, saves)
    IN /\ pc = "prompt"
       /\ book' = bk
       /\ file' = end.file
       /\ saves' = end.saves
       /\ pc' = "done"
       /\ out' = Call("escaped", <<>>, NoExc, NoReply)
       /\ UNCHANGED <<ncmd, log>>

NextSession ==
    \/ Load
    \/ \E in \in Inputs : Command(in)
    \/ \E w \in {"close", "exit", "KeyboardInterrupt", "EOFError"} : Leave(w)
    \/ \E in \in Inputs, after \in BOOLEAN : Escape(in, after)

SpecSession == InitSession /\ [][NextSession]_vars

(***************************************************************************)
(* Properties of Record (SpecRecord).                                      *)
(***************************************************************************)
IsTenDecimalDigits(s) == Len(s) = 10 /\ \A i \in 1..Len(s) : s[i] \in {"0", "1", "2", "3", "4", "5", "6", "7", "8", "9"}

PhoneSet(rec) == {rec.phones[i] : i \in 1..Len(rec.phones)}

\* C4: every phone stored in the record is a string of exactly 10 decimal
\* digits, and add_phone / edit_phone accept a raw string exactly when it has
\* that shape.
C4_StoredPhonesAreTenDecimalDigits ==
    /\ \A i \in 1..Len(book) : \A p \in PhoneSet(book[i]) : IsTenDecimalDigits(p)
    /\ out.op = "add_phone" /\ IsTenDecimalDigits(out.args[1]) => out.exc = NoExc
    /\ out.op = "add_phone" /\ out.exc = NoExc => IsTenDecimalDigits(out.args[1])
    /\ out.op = "edit_phone" /\ out.exc = NoExc => IsTenDecimalDigits(out.args[2])

C6_EditReplacesFirstInPlace ==
    [][out'.op = "edit_phone" /\ out'.args[1] \in PhoneSet(book[1])
                              /\ Phone_validate(out'.args[2])
        => LET old == out'.args[1]
               new == out'.args[2]
               before == book[1].phones
               after == book'[1].phones
               first == CHOOSE i \in 1..Len(before) :
                           before[i] = old /\ \A j \in 1..(i - 1) : before[j] # old
           IN /\ out'.exc = NoExc
              /\ Len(book') = Len(book)
              /\ Len(after) = Len(before)
              /\ after[first] = new
              /\ \A j \in 1..Len(before) : j # first => after[j] = before[j]
              /\ book'[1].birthday = book[1].birthday
              /\ book'[1].name = book[1].name
      ]_vars

\* edit_phone succeeded on a list holding old_phone twice: the first became
\* new_phone, the second is still old_phone
C6_Witness ==
    /\ out.op = "edit_phone"
    /\ out.exc = NoExc
    /\ out.args[1] # out.args[2]
    /\ Len(book[1].phones) = 3
    /\ book[1].phones[1] = out.args[2]
    /\ book[1].phones[2] = out.args[1]
    /\ book[1].birthday # None

(***************************************************************************)
(* Properties of get_upcoming_birthdays (SpecBook).  In a state whose last *)
(* call is get_upcoming_birthdays, out.args[1] is the reference date and   *)
(* out.ret the returned list (empty when the call raised).                 *)
(***************************************************************************)
IsUpcomingCall == out.op = "get_upcoming_birthdays"

\* the days k in 0..7 for which today + k has the month and day of birthday
OccurrenceOffsets(birthday, today) ==
    {k \in 0..7 : AddDays(today, k)[2] = birthday[2] /\ AddDays(today, k)[3] = birthday[3]}

\* the day of the week counted from Monday 10.06.2024: 0 Monday .. 6 Sunday
DayOfWeek(dt) == (Ordinal(dt) - Ordinal(<<2024, 6, 10>>)) % 7

EntriesOf(name) == {k \in 1..Len(out.ret) : out.ret[k].name = name}

\* C1: the call includes a record exactly when the record has a birthday
\* whose next occurrence is 0 to 7 days after today, both ends included.
C1_IncludedIffWithinSevenDays ==
    IsUpcomingCall =>
        \A i \in 1..Len(book) :
            EntriesOf(book[i].name) # {}
                <=> /\ book[i].birthday # None
                    /\ OccurrenceOffsets(book[i].birthday, out.args[1]) # {}

\* C1 for the calls that return: the same statement, for the calls that did
\* not raise.
C1_IncludedIffWithinSevenDaysWhenReturned ==
    IsUpcomingCall /\ out.exc = NoExc => C1_IncludedIffWithinSevenDays

\* C2: the congratulation date of an included record is the next occurrence
\* of its birthday, moved to the Monday after when it falls on Saturday
\* (2 days later) or Sunday (1 day later); today 10.06.2024 and birthday
\* 15.06.1990 give 17.06.2024.
C2_CongratulationDateIsWeekendShifted ==
    IsUpcomingCall =>
        \A k \in 1..Len(out.ret) :
            LET today == out.args[1]
                rec == book[CHOOSE i \in 1..Len(book) : book[i].name = out.ret[k].name]
                occ == AddDays(today, CHOOSE d \in OccurrenceOffsets(rec.birthday, today) : TRUE)
                expected == IF DayOfWeek(occ) = 5 THEN AddDays(occ, 2)
                            ELSE IF DayOfWeek(occ) = 6 THEN AddDays(occ, 1)
                            ELSE occ
            IN /\ rec.birthday # None
               /\ OccurrenceOffsets(rec.birthday, today) # {}
               /\ out.ret[k].congratulation_date = strftime(expected)
               /\ today = <<2024, 6, 10>> /\ rec.birthday = <<1990, 6, 15>>
                    => out.ret[k].congratulation_date
                         = <<"1", "7", ".", "0", "6", ".", "2", "0", "2", "4">>

\* a call that reports a Saturday occurrence, a Sunday occurrence: both are
\* reported for the same Monday
C2_Witness ==
    /\ IsUpcomingCall
    /\ Len(out.ret) = 2
    /\ book[1].birthday = <<1990, 6, 15>>
    /\ book[2].birthday = <<2001, 6, 16>>
    /\ out.ret[1].congratulation_date = out.ret[2].congratulation_date

\* C3: get_upcoming_birthdays returns a list and does not fail, whatever the
\* valid birthdays stored (29 February included) and whatever today is.
C3_UpcomingNeverFails == IsUpcomingCall => out.exc = NoExc

\* C10: every congratulation date emitted is a Monday to Friday, not before
\* today and at most 9 days after it; there is at most one entry per record,
\* in the order of the book; the call leaves the book unchanged.
C10_EmittedDatesAreWorkdaysInOrder ==
    [][out'.op = "get_upcoming_birthdays" =>
        /\ book' = book
        /\ \A k \in 1..Len(out'.ret) :
            LET date == strptime(out'.ret[k].congratulation_date)
            IN /\ date.exc = NoExc
               /\ DayOfWeek(date.val) \in 0..4
               /\ DaysBetween(date.val, out'.args[1]) \in 0..9
               /\ find(book, out'.ret[k].name) # 0
        /\ \A k \in 1..Len(out'.ret) : \A l \in 1..Len(out'.ret) :
            k < l => find(book, out'.ret[k].name) < find(book, out'.ret[l].name)
      ]_vars

\* a returned list of two entries, one of them 9 days after today
C10_Witness ==
    /\ IsUpcomingCall
    /\ Len(out.ret) = 2
    /\ \E k \in 1..2 :
        DaysBetween(strptime(out.ret[k].congratulation_date).val, out.args[1]) = 9

(***************************************************************************)
(* Properties of the commands (SpecAdd, SpecSession).                      *)
(***************************************************************************)
\* the successful add commands typed so far for name, in order
AddsFor(name) == SelectSeq(log, LAMBDA e : e.args[1] = name)

\* C7: after successful add commands from an empty book, the book holds one
\* record per name used, under that name, whose phones are the phones added
\* for that name in order and which has no birthday; the first add of a name
\* replies "Contact added.", every later one "Contact updated.".
C7_AddAccumulatesPhonesPerName ==
    /\ \A n \in Names :
        IF AddsFor(n) = <<>> THEN \A i \in 1..Len(book) : book[i].name # n
        ELSE /\ Cardinality({i \in 1..Len(book) : book[i].name = n}) = 1
             /\ \A i \in 1..Len(book) : book[i].name = n =>
                    /\ book[i].phones = [k \in 1..Len(AddsFor(n)) |-> AddsFor(n)[k].args[2]]
                    /\ book[i].birthday = None
    /\ Len(book) = Cardinality({n \in Names : AddsFor(n) # <<>>})
    /\ \A k \in 1..Len(log) :
        log[k].reply = IF \E j \in 1..(k - 1) : log[j].args[1] = log[k].args[1]
                       THEN "Contact updated." ELSE "Contact added."

\* four adds on two names, the second name's record holding the same phone twice
C7_Witness ==
    /\ Len(log) = 4
    /\ Len(book) = 2
    /\ Len(book[1].phones) = 2
    /\ book[2].phones = <<Phone2, Phone2>>
    /\ out.ret.text = "Contact updated."

\* C8: a command that replies with an error leaves the book as it was; add
\* with a name not in the book and an invalid phone replies with an error and
\* leaves the book without a record for the name; change, add-birthday, phone
\* and show-birthday with a name not in the book reply with an error and
\* leave the book unchanged.
C8_FailedCommandLeavesBookIntact ==
    [][pc = "prompt" /\ pc' = "prompt" =>
        /\ out'.ret.error => book' = book
        /\ out'.op = "add" /\ Len(out'.args) >= 2 /\ find(book, out'.args[1]) = 0
                           /\ ~Phone_validate(out'.args[2])
            => out'.ret.error /\ find(book', out'.args[1]) = 0
        /\ out'.op \in {"change", "add-birthday", "phone", "show-birthday"}
                /\ Len(out'.args) >= 1 /\ find(book, out'.args[1]) = 0
            => out'.ret.error /\ book' = book
      ]_vars

\* C8 for the commands other than add: a change, add-birthday, phone,
\* show-birthday, birthdays or all command that replies with an error leaves
\* the book as it was.
C8_FailedCommandOtherThanAddLeavesBookIntact ==
    [][pc = "prompt" /\ pc' = "prompt" /\ out'.op # "add" =>
        /\ out'.ret.error => book' = book
        /\ out'.op \in {"change", "add-birthday", "phone", "show-birthday"}
                /\ Len(out'.args) >= 1 /\ find(book, out'.args[1]) = 0
            => out'.ret.error /\ book' = book
      ]_vars

\* C9: however the session ends, the book is saved exactly once, at the end,
\* so that the file holds the final book; nothing is saved before the end;
\* a session that finds no file starts with an empty book.
C9_SavedOnceOnEveryExit ==
    /\ pc = "done" => saves = 1 /\ file = <<book>>
    /\ pc # "done" => saves = 0
    /\ pc = "prompt" /\ file = NoFile /\ ncmd = 0 => book = <<>>

\* a session that started without a file, changed the book and ended by end
\* of input
C9_Witness ==
    /\ pc = "done"
    /\ out.op = "EOFError"
    /\ ncmd >= 2
    /\ Len(book) = 2
    /\ file = <<book>>
    /\ \A i \in 1..Len(book) : book[i].birthday = None

====
